---- MODULE Spec2Model ----
(***************************************************************************)
(* Model of pyubcc's UpbitCandleCollector (src/pyubcc/ubcc.py): the SQLite *)
(* candle store, the resume / alignment / backward pagination of collect,  *)
(* and the verification and gap analysis queries.                          *)
(*                                                                         *)
(* A datetime is the number of whole seconds since midnight of day 0 (the  *)
(* sub-second part is not modelled).  A candle's OHLCV tuple is one value  *)
(* of Vals: the row is always written and replaced as a whole.             *)
(***************************************************************************)
EXTENDS Integers, Sequences, FiniteSets, TLC

VARIABLES
    interval,        \* self.interval, minutes
    store,           \* committed rows of table ohlcv
    pc,              \* position of the caller: idle, loop, done, failed
    req_start,       \* the start of the requested range of the running collect
    start_date,      \* self.start_date (effective start after the resume decision)
    end_date,        \* self.end_date
    min_date,        \* MIN(timestamp) read by collect, as text, or NullText
    max_date,        \* MAX(timestamp) read by collect, as text, or NullText
    current_date,    \* the pagination cursor
    adjusted_start,  \* collect's adjusted_start
    adjusted_end,    \* collect's adjusted_end
    total_candles,   \* collect's total_candles (line 166)
    request,         \* the (to, count) of the latest upstream request
    page,            \* the timestamps of the page the latest request returned
    saved_count,     \* what _save_dataframe_to_db returned for that page
    result,          \* what collect returned, or NoValue
    raised,          \* the exception collect raised: "none", "fetch", "save"
    out,             \* what the last public read call returned
    store0,          \* history: the store when collect began
    nfetch,          \* history: number of upstream requests of this collect
    written,         \* history: latest value upserted per timestamp by this collect
    executed,        \* history: rows of the failing page inserted before the failure
    sleeps,          \* history: pacing delays (time.sleep) of this collect
    upstream,        \* history: the kinds of gapless upstream that would have
                     \* answered every request of this collect as it was answered
    clk_t,           \* input time of the IntervalClock specification
    clk_out          \* output of the IntervalClock specification

vars == <<interval, store, pc, req_start, start_date, end_date, min_date,
          max_date, current_date, adjusted_start, adjusted_end, total_candles,
          request, page, saved_count, result, raised, out, store0, nfetch,
          written, executed, sleeps, upstream, clk_t, clk_out>>

collectVars == <<pc, req_start, start_date, end_date, min_date, max_date,
                 current_date, adjusted_start, adjusted_end, total_candles,
                 request, page, saved_count, result, raised, store0, nfetch,
                 written, executed, sleeps, upstream>>

clockVars == <<clk_t, clk_out>>

\* None where a datetime is expected
Null == 0 - 1
\* None where a stored text is expected
NullText == <<>>
\* nothing returned yet
NoValue == [op |-> "none"]

-----------------------------------------------------------------------------
(* Bounds of the model *)

\* candle slots the upstream may hold: Slot(0) .. Slot(MaxSlot)
MaxSlot == 3
\* upstream requests per collect call
MaxFetches == 2
\* days of input times in the IntervalClock specification
ClockDays == 1

-----------------------------------------------------------------------------
(* Program constants *)

\* timeframe_minutes
Timeframes == {1, 3, 5, 10, 15, 30, 60, 240, 1440, 10080, 43200}
\* the 09:00 session anchor
SessionOpenHour == 9
\* the page cap of one upstream request
PageCap == 200

-----------------------------------------------------------------------------
(* datetime *)

Day(t) == t \div 86400
SecOfDay(t) == t % 86400
Hour(t) == SecOfDay(t) \div 3600
Minute(t) == (SecOfDay(t) % 3600) \div 60
Second(t) == t % 60

\* t.replace(hour=h, minute=0, second=0, microsecond=0)
ReplaceHour(t, h) == Day(t) * 86400 + h * 3600
\* t.replace(second=0, microsecond=0)
ReplaceSecond(t) == t - Second(t)
\* timedelta(minutes=n) in seconds
Minutes(n) == n * 60

\* int(x / y) for y > 0: Python's int() truncates toward zero
IntDiv(x, y) == IF x >= 0 THEN x \div y ELSE -((-x) \div y)

\* adapt_datetime: val.isoformat() = date, 'T' (84), time of day
AdaptDatetime(t) == <<Day(t), 84, SecOfDay(t)>>
\* str(datetime) as interpolated into the SQL text = date, ' ' (32), time of day
StrDatetime(t) == <<Day(t), 32, SecOfDay(t)>>
\* datetime.fromisoformat / pd.Timestamp of a stored text
FromIsoFormat(x) == x[1] * 86400 + x[3]

\* SQLite's BINARY collation on two texts of the shapes above
TextLT(a, b) ==
    \/ a[1] < b[1]
    \/ a[1] = b[1] /\ a[2] < b[2]
    \/ a[1] = b[1] /\ a[2] = b[2] /\ a[3] < b[3]
TextLE(a, b) == a = b \/ TextLT(a, b)

-----------------------------------------------------------------------------
(* IntervalClock: the alignment code of collect and _calculate_total_candles *)

AdjustedStartRoundedUp(t, m) ==
    LET s1 == IF Hour(t) < SessionOpenHour THEN ReplaceHour(t, SessionOpenHour) ELSE t
        minutes_from_nine == (Hour(s1) - SessionOpenHour) * 60 + Minute(s1)
        s2 == IF minutes_from_nine % m # 0
              THEN s1 + Minutes(m - (minutes_from_nine % m))
              ELSE s1
    IN  ReplaceSecond(s2)

\* collect, lines 173-184
AdjustedStart(t, m) ==
    LET s1 == IF Hour(t) < SessionOpenHour THEN ReplaceHour(t, SessionOpenHour) ELSE t
        minutes_from_nine == (Hour(s1) - SessionOpenHour) * 60 + Minute(s1)
        s2 == IF minutes_from_nine % m # 0
              THEN s1 - Minutes(minutes_from_nine % m)
              ELSE s1
    IN  ReplaceSecond(s2)

AdjustedEndFromNine(t, m) ==
    LET minutes_total == (Hour(t) - SessionOpenHour) * 60 + Minute(t)
        e1 == IF minutes_total % m # 0
              THEN t - Minutes(minutes_total % m)
              ELSE t
    IN  ReplaceSecond(e1)

\* collect, lines 186-193
AdjustedEnd(t, m) ==
    LET minutes_total == Hour(t) * 60 + Minute(t)
        e1 == IF minutes_total % m # 0
              THEN t - Minutes(minutes_total % m)
              ELSE t
    IN  ReplaceSecond(e1)

\* _calculate_total_candles, lines 282-291
CalcStart(t, m) ==
    LET s1 == IF Hour(t) < SessionOpenHour THEN ReplaceHour(t, SessionOpenHour) ELSE t
        minutes_from_nine == (Hour(s1) - SessionOpenHour) * 60 + Minute(s1)
    IN  IF minutes_from_nine % m # 0
        THEN s1 + Minutes(m - (minutes_from_nine % m))
        ELSE s1

\* _calculate_total_candles, lines 293-298
CalcEnd(t, m) ==
    LET minutes_total == Hour(t) * 60 + Minute(t)
    IN  IF minutes_total % m # 0
        THEN t - Minutes(minutes_total % m)
        ELSE t

\* calculate_minutes_between followed by int(): whole minutes, truncated
CalculateMinutesBetween(s, e) == IntDiv(e - s, 60)

\* _calculate_total_candles
CalculateTotalCandles(s, e, m) ==
    CalculateMinutesBetween(CalcStart(s, m), CalcEnd(e, m)) \div m

-----------------------------------------------------------------------------
(* Store: table ohlcv, timestamp DATETIME PRIMARY KEY, WITHOUT ROWID *)

\* the OHLCV tuples the upstream may report for a candle
Vals == {1, 2}

Row(t, v) == [timestamp |-> AdaptDatetime(t), val |-> v]

InsertKeepingOld(S, r) == S \cup {r}

ReplaceTable(S, r) == {r}

\* INSERT OR REPLACE INTO ohlcv: the row of the same primary key is replaced
InsertOrReplace(S, r) == {x \in S : x.timestamp # r.timestamp} \cup {r}

\* cursor.executemany over the first n rows of data
RECURSIVE ExecuteMany(_, _, _)
ExecuteMany(S, data, n) ==
    IF n = 0 THEN S
    ELSE InsertOrReplace(ExecuteMany(S, data, n - 1), data[n])

RollbackMissing(committed, working) == working

CommitMissing(committed, working) == committed

\* conn.rollback(): the open transaction's writes are discarded
Rollback(committed, working) == committed

\* conn.commit(): the open transaction's writes become the table
Commit(committed, working) == working

RECURSIVE OrderByTimestampDesc(_)
OrderByTimestampDesc(S) ==
    IF S = {} THEN <<>>
    ELSE LET first == CHOOSE x \in S : \A y \in S : TextLE(y.timestamp, x.timestamp)
         IN  <<first>> \o OrderByTimestampDesc(S \ {first})

\* ORDER BY timestamp over a set of rows
RECURSIVE OrderByTimestamp(_)
OrderByTimestamp(S) ==
    IF S = {} THEN <<>>
    ELSE LET first == CHOOSE x \in S : \A y \in S : TextLE(x.timestamp, y.timestamp)
         IN  <<first>> \o OrderByTimestamp(S \ {first})

\* SELECT MIN(timestamp), MAX(timestamp) FROM ohlcv
GetLastTimestamp(S) ==
    IF S = {} THEN <<NullText, NullText>>
    ELSE LET ordered == OrderByTimestamp(S)
         IN  <<ordered[1].timestamp, ordered[Len(ordered)].timestamp>>

\* the WHERE clause built from str(start_date) and str(end_date)
TimeWhere(S, s, e) ==
    {r \in S : /\ (s # Null => TextLE(StrDatetime(s), r.timestamp))
               /\ (e # Null => TextLE(r.timestamp, StrDatetime(e)))}

\* verify_data: COUNT(*) and the LAG query counting prev_timestamp >= timestamp
VerifyData(S, s, e) ==
    LET ordered == OrderByTimestamp(TimeWhere(S, s, e))
    IN  [total_count |-> Len(ordered),
         mismatches  |-> Cardinality({i \in 2..Len(ordered) :
                            TextLE(ordered[i].timestamp, ordered[i - 1].timestamp)})]

\* the loop of analyze_gaps over timestamps[i], timestamps[i + 1] for i < n
RECURSIVE GapLoop(_, _, _)
GapLoop(timestamps, n, m) ==
    IF n = 0 THEN <<>>
    ELSE LET current == timestamps[n]
             next_time == timestamps[n + 1]
             actual_interval == next_time - current
             rest == GapLoop(timestamps, n - 1, m)
         IN  IF actual_interval > Minutes(m)
             THEN Append(rest, [start |-> current,
                                end |-> next_time,
                                duration |-> actual_interval,
                                missing_candles |-> (actual_interval \div (60 * m)) - 1])
             ELSE rest

\* analyze_gaps
AnalyzeGaps(S, s, e, m) ==
    LET ordered == OrderByTimestamp(TimeWhere(S, s, e))
        timestamps == [i \in 1..Len(ordered) |-> FromIsoFormat(ordered[i].timestamp)]
    IN  IF Len(timestamps) = 0 THEN <<>>
        ELSE GapLoop(timestamps, Len(timestamps) - 1, m)

\* df[valid_indices] over the first n rows: a row stays when it is the first
\* or follows its predecessor by exactly one interval
RECURSIVE FilterGaps(_, _, _)
FilterGaps(df, n, m) ==
    IF n = 0 THEN <<>>
    ELSE LET rest == FilterGaps(df, n - 1, m)
             valid == \/ n = 1
                      \/ df[n].index - df[n - 1].index = Minutes(m)
         IN  IF valid THEN Append(rest, df[n]) ELSE rest

\* get_ohlcv_data
GetOhlcvData(S, s, e, filter_gaps, m) ==
    LET ordered == OrderByTimestamp(TimeWhere(S, s, e))
        df == [i \in 1..Len(ordered) |->
                  [index |-> FromIsoFormat(ordered[i].timestamp),
                   val |-> ordered[i].val]]
    IN  IF filter_gaps /\ Len(df) > 0 THEN FilterGaps(df, Len(df), m) ELSE df

-----------------------------------------------------------------------------
(* The upstream source and the inputs of the model *)

\* the intervals of the collection runs of the model
RunTimeframes == {60, 240}

\* 09:00 of day 40
Epoch == 40 * 86400 + SessionOpenHour * 3600

\* the k-th candle time of the upstream at interval m
Slot(k, m) == Epoch + Minutes(k * m)

UpstreamTimes(m) == {Slot(k, m) : k \in 0..MaxSlot}

\* what the table may hold when the collector is constructed on an existing
\* database file: nothing, a covered range, a later range, a range with a hole
PriorStores(m) ==
    {{},
     {Row(Slot(k, m), 1) : k \in {0, 1, 2}},
     {Row(Slot(k, m), 1) : k \in {2, 3}},
     {Row(Slot(k, m), 1) : k \in {0, 2, 3}}}

\* the (start_date, end_date) arguments of collect: on the grid up to one slot
\* after the latest candle of the upstream, a range that
\* ends inside the stored data, the default start, a start before 09:00 with an
\* end off the grid by minutes, a start off the grid by seconds, and a range
\* shorter than one interval that lies after the stored data
CollectArgs(m) ==
    {<<Slot(0, m), Slot(MaxSlot + 1, m)>>,
     <<Slot(0, m), Slot(2, m)>>,
     <<Null, Slot(3, m) + 30>>,
     <<Slot(0, m) - 3600, Slot(1, m) + 1800>>,
     <<Slot(1, m) + 90, Slot(MaxSlot + 1, m)>>,
     <<Slot(3, m) + 600, Slot(3, m) + 1800>>}

\* the (start_date, end_date) arguments of the read queries
QueryArgs(m) ==
    {<<Null, Null>>,
     <<Slot(3, m), Null>>,
     <<Null, Slot(3, m)>>,
     <<Slot(0, m), Slot(3, m)>>}

\* to=current_date - timedelta(hours=9)
ToUpstream(t) == t - 9 * 3600

Min(a, b) == IF a < b THEN a ELSE b
Max(a, b) == IF a > b THEN a ELSE b

RECURSIVE SortAsc(_)
SortAsc(T) ==
    IF T = {} THEN <<>>
    ELSE LET first == CHOOSE x \in T : \A y \in T : x <= y
         IN  <<first>> \o SortAsc(T \ {first})

SortIndexDescending(T, v) ==
    LET idx == SortAsc(T)
    IN  [i \in 1..Len(idx) |-> [index |-> idx[Len(idx) + 1 - i], val |-> v]]

\* df.sort_index() of a page holding the timestamps T, each with OHLCV v
SortIndex(T, v) ==
    LET idx == SortAsc(T)
    IN  [i \in 1..Len(idx) |-> [index |-> idx[i], val |-> v]]

\* data = [(index.to_pydatetime(), row[...]) for index, row in df.iterrows()]
Data(df) == [i \in 1..Len(df) |-> Row(df[i].index, df[i].val)]

PageCountUncapped(cur, start, m) ==
    LET time_diff_minutes == IntDiv(cur - start, 60)
    IN  Max(1, time_diff_minutes \div m)

\* count = max(1, min(200, time_diff_minutes // interval))
PageCount(cur, start, m) ==
    LET time_diff_minutes == IntDiv(cur - start, 60)
        needed_candles == Min(PageCap, time_diff_minutes \div m)
    IN  Max(1, needed_candles)

\* a page the upstream may return: at most count candles at or before the cursor
Pages(cur, count, m) ==
    {T \in SUBSET {t \in UpstreamTimes(m) : t <= cur} :
        T # {} /\ Cardinality(T) <= count}

\* an upstream without gaps holds a candle at every slot; asked for count
\* candles up to the cursor it answers with the latest count of them, the candle
\* at the cursor itself included ("at_or_before") or excluded ("before")
DenseKinds == {"at_or_before", "before"}

DenseAnswer(kind, cur, count, m) ==
    LET held == {t \in UpstreamTimes(m) :
                    IF kind = "before" THEN t < cur ELSE t <= cur}
    IN  {t \in held : Cardinality({u \in held : u > t}) < count}

-----------------------------------------------------------------------------
(* collect *)

EffectiveStartFromMin(requested, mn, mx) ==
    IF mn # NullText /\ mx # NullText
    THEN IF FromIsoFormat(mn) > requested THEN requested ELSE FromIsoFormat(mn)
    ELSE requested

EffectiveStartMinAtOrAfter(requested, mn, mx) ==
    IF mn # NullText /\ mx # NullText
    THEN IF FromIsoFormat(mn) >= requested THEN requested ELSE FromIsoFormat(mx)
    ELSE requested

\* lines 146-163: the resume decision
EffectiveStart(requested, mn, mx) ==
    IF mn # NullText /\ mx # NullText
    THEN IF FromIsoFormat(mn) > requested THEN requested ELSE FromIsoFormat(mx)
    ELSE requested

\* lines 135-201: everything collect does before its loop
Collect(start, end) ==
    /\ pc = "idle"
    /\ LET requested == IF start # Null THEN start
                        ELSE ReplaceHour(end - 86400, SessionOpenHour)
           extremes == GetLastTimestamp(store)
           effective == EffectiveStart(requested, extremes[1], extremes[2])
       IN  /\ req_start' = requested
           /\ end_date' = end
           /\ min_date' = extremes[1]
           /\ max_date' = extremes[2]
           /\ start_date' = effective
           /\ total_candles' = CalculateTotalCandles(effective, end, interval)
           /\ adjusted_start' = AdjustedStart(effective, interval)
           /\ adjusted_end' = AdjustedEnd(end, interval)
           /\ current_date' = end
    /\ pc' = "loop"
    /\ out' = NoValue
    /\ UNCHANGED <<interval, store, request, page, saved_count, result, raised,
                   store0, nfetch, written, executed, sleeps, upstream,
                   clockVars>>

InLoop ==
    /\ pc = "loop"
    /\ current_date > start_date
    /\ nfetch < MaxFetches

Request ==
    [to    |-> ToUpstream(current_date),
     count |-> PageCount(current_date, start_date, interval)]

\* collect returns or raises: the locals of its loop are gone
LocalsDropped ==
    /\ current_date' = Null
    /\ request' = NoValue
    /\ page' = {}
    /\ saved_count' = 0

SleepSkipped(n) == n

\* line 250: time.sleep(0.1), counted
Sleep(n) == n + 1

\* lines 211-227 and 250: a non-empty page is sorted, saved and committed
FetchPage ==
    /\ InLoop
    /\ \E T \in Pages(current_date, Request.count, interval), v \in Vals :
          LET df == SortIndex(T, v)
              data == Data(df)
              working == ExecuteMany(store, data, Len(data))
          IN  /\ store' = Commit(store, working)
              /\ saved_count' = Len(data)
              /\ current_date' = df[1].index
              /\ page' = T
              /\ written' = [t \in DOMAIN written \cup T |->
                                IF t \in T THEN v ELSE written[t]]
              /\ upstream' = {k \in upstream :
                                T = DenseAnswer(k, current_date, Request.count,
                                                interval)}
    /\ request' = Request
    /\ nfetch' = nfetch + 1
    /\ sleeps' = Sleep(sleeps)
    /\ UNCHANGED <<interval, pc, req_start, start_date, end_date, min_date,
                   max_date, adjusted_start, adjusted_end, total_candles,
                   result, raised, out, store0, executed, clockVars>>

\* lines 246-250: no data, the cursor jumps back by 200 intervals
FetchEmpty ==
    /\ InLoop
    /\ current_date' = current_date - Minutes(PageCap * interval)
    /\ page' = {}
    /\ request' = Request
    /\ nfetch' = nfetch + 1
    /\ sleeps' = Sleep(sleeps)
    /\ upstream' = {k \in upstream :
                      DenseAnswer(k, current_date, Request.count, interval) = {}}
    /\ UNCHANGED <<interval, store, pc, req_start, start_date, end_date,
                   min_date, max_date, adjusted_start, adjusted_end,
                   total_candles, saved_count, result, raised, out, store0,
                   written, executed, clockVars>>

\* lines 252-255: pyupbit.get_ohlcv raises, collect re-raises at once
FetchError ==
    /\ InLoop
    /\ nfetch' = nfetch + 1
    /\ pc' = "failed"
    /\ raised' = "fetch"
    /\ upstream' = {}
    /\ LocalsDropped
    /\ UNCHANGED <<interval, store, req_start, start_date, end_date, min_date,
                   max_date, adjusted_start, adjusted_end, total_candles,
                   result, out, store0, written, executed, sleeps, clockVars>>

\* lines 341-345 and 252-255: the n-th INSERT of a page fails
SaveError ==
    /\ InLoop
    /\ \E T \in Pages(current_date, Request.count, interval), v \in Vals :
          LET data == Data(SortIndex(T, v))
          IN  \E n \in 1..Len(data) :
                 /\ store' = Rollback(store, ExecuteMany(store, data, n - 1))
                 /\ executed' = n - 1
    /\ nfetch' = nfetch + 1
    /\ pc' = "failed"
    /\ raised' = "save"
    /\ upstream' = {}
    /\ LocalsDropped
    /\ UNCHANGED <<interval, req_start, start_date, end_date, min_date,
                   max_date, adjusted_start, adjusted_end, total_candles,
                   result, out, store0, written, sleeps, clockVars>>

\* lines 263-268: the loop condition is false, the report is computed
Finish ==
    /\ pc = "loop"
    /\ ~(current_date > start_date)
    /\ LET verified == VerifyData(store, adjusted_start, adjusted_end)
       IN  result' = [total_count |-> verified.total_count,
                      expected_candles |->
                          CalculateTotalCandles(adjusted_start, adjusted_end, interval),
                      timestamp_order_mismatches |-> verified.mismatches,
                      gaps |-> AnalyzeGaps(store, adjusted_start, adjusted_end, interval)]
    /\ pc' = "done"
    /\ LocalsDropped
    /\ UNCHANGED <<interval, store, req_start, start_date, end_date, min_date,
                   max_date, adjusted_start, adjusted_end, total_candles,
                   raised, out, store0, nfetch, written, executed, sleeps,
                   upstream, clockVars>>

-----------------------------------------------------------------------------
(* The public operations called outside a collection run *)

InitializeDb ==
    /\ pc # "loop"
    /\ out' = [op |-> "initialize_db"]
    /\ UNCHANGED <<interval, store, collectVars, clockVars>>

CallVerifyData ==
    /\ pc # "loop"
    /\ \E q \in QueryArgs(interval) :
          out' = [op |-> "verify_data", start |-> q[1], end |-> q[2],
                  value |-> VerifyData(store, q[1], q[2])]
    /\ UNCHANGED <<interval, store, collectVars, clockVars>>

CallAnalyzeGaps ==
    /\ pc # "loop"
    /\ \E q \in QueryArgs(interval) :
          out' = [op |-> "analyze_gaps", start |-> q[1], end |-> q[2],
                  value |-> AnalyzeGaps(store, q[1], q[2], interval)]
    /\ UNCHANGED <<interval, store, collectVars, clockVars>>

CallGetOhlcvData ==
    /\ pc # "loop"
    /\ \E q \in QueryArgs(interval), f \in BOOLEAN :
          out' = [op |-> "get_ohlcv_data", start |-> q[1], end |-> q[2],
                  filter_gaps |-> f,
                  value |-> GetOhlcvData(store, q[1], q[2], f, interval)]
    /\ UNCHANGED <<interval, store, collectVars, clockVars>>

-----------------------------------------------------------------------------
(* Specification of the collector: one session on a database file *)

Idle ==
    /\ pc = "idle"
    /\ req_start = Null
    /\ start_date = Null
    /\ end_date = Null
    /\ min_date = NullText
    /\ max_date = NullText
    /\ current_date = Null
    /\ adjusted_start = Null
    /\ adjusted_end = Null
    /\ total_candles = 0
    /\ request = NoValue
    /\ page = {}
    /\ saved_count = 0
    /\ result = NoValue
    /\ raised = "none"
    /\ out = NoValue
    /\ nfetch = 0
    /\ written = <<>>
    /\ executed = 0
    /\ sleeps = 0
    /\ upstream = DenseKinds

Init ==
    /\ interval \in RunTimeframes
    /\ store \in PriorStores(interval)
    /\ store0 = store
    /\ Idle
    /\ clk_t = Null
    /\ clk_out = NoValue

Next ==
    \/ \E a \in CollectArgs(interval) : Collect(a[1], a[2])
    \/ FetchPage
    \/ FetchEmpty
    \/ FetchError
    \/ SaveError
    \/ Finish
    \/ InitializeDb
    \/ CallVerifyData
    \/ CallAnalyzeGaps
    \/ CallGetOhlcvData

Spec == Init /\ [][Next]_vars

-----------------------------------------------------------------------------
(* Specification of the IntervalClock functions over a grid of input times *)

ClockTimes ==
    {Epoch - SessionOpenHour * 3600 + Minutes(k) + sec :
        k \in 0..(ClockDays * 1440 - 1), sec \in {0, 59}}

ClockAdjustedStart ==
    /\ clk_out = NoValue
    /\ clk_out' = [op |-> "start", first |-> AdjustedStart(clk_t, interval),
                   again |-> Null]
    /\ UNCHANGED <<interval, store, collectVars, out, clk_t>>

ClockAdjustedEnd ==
    /\ clk_out = NoValue
    /\ clk_out' = [op |-> "collect", first |-> AdjustedEnd(clk_t, interval),
                   again |-> Null]
    /\ UNCHANGED <<interval, store, collectVars, out, clk_t>>

ClockCalcEnd ==
    /\ clk_out = NoValue
    /\ clk_out' = [op |-> "calculate", first |-> CalcEnd(clk_t, interval),
                   again |-> Null]
    /\ UNCHANGED <<interval, store, collectVars, out, clk_t>>

ClockAgain ==
    /\ clk_out # NoValue
    /\ clk_out.again = Null
    /\ clk_out' = [clk_out EXCEPT !.again =
                      CASE clk_out.op = "start" ->
                               AdjustedStart(clk_out.first, interval)
                        [] clk_out.op = "collect" ->
                               AdjustedEnd(clk_out.first, interval)
                        [] OTHER -> CalcEnd(clk_out.first, interval)]
    /\ UNCHANGED <<interval, store, collectVars, out, clk_t>>

InitClock ==
    /\ interval \in Timeframes
    /\ store = {}
    /\ store0 = {}
    /\ Idle
    /\ clk_t \in ClockTimes
    /\ clk_out = NoValue

NextClock ==
    \/ ClockAdjustedStart
    \/ ClockAdjustedEnd
    \/ ClockCalcEnd
    \/ ClockAgain

SpecClock == InitClock /\ [][NextClock]_vars

-----------------------------------------------------------------------------
(* Specification of the pagination over short and long ranges, for every
   interval, against an upstream that has no data or fails *)

\* lengths of the requested range, in seconds: below one minute, around one and
\* two intervals, around the page cap and beyond two pages
RangeLengths(m) ==
    {30, 90, Minutes(m) - 30, Minutes(m), Minutes(2 * m) - 30,
     Minutes(2 * m) + 30, Minutes(199 * m), Minutes(200 * m) + 30,
     Minutes(201 * m), Minutes(450 * m)}

PageArgs(m) == {<<Epoch, Epoch + d>> : d \in RangeLengths(m)}

InitPage ==
    /\ interval \in Timeframes
    /\ store = {}
    /\ store0 = {}
    /\ Idle
    /\ clk_t = Null
    /\ clk_out = NoValue

NextPage ==
    \/ \E a \in PageArgs(interval) : Collect(a[1], a[2])
    \/ FetchEmpty
    \/ FetchError
    \/ Finish

SpecPage == InitPage /\ [][NextPage]_vars

-----------------------------------------------------------------------------
(* Specification of the read queries over stored sequences of every interval *)

\* the distance of two successive stored candles: one interval, one interval
\* and a day (a 31-day calendar month at the 43200-minute interval), two
\* intervals
Spacings(m) == {Minutes(m), Minutes(m) + 86400, Minutes(2 * m)}

\* tables of two or three candles that follow each other at these distances
GapStores(m) ==
    {{Row(Epoch, 1), Row(Epoch + a, 1)} : a \in Spacings(m)}
    \cup {{Row(Epoch, 1), Row(Epoch + a, 1), Row(Epoch + a + b, 1)} :
              a \in Spacings(m), b \in Spacings(m)}

InitGaps ==
    /\ interval \in Timeframes
    /\ store \in GapStores(interval)
    /\ store0 = store
    /\ Idle
    /\ clk_t = Null
    /\ clk_out = NoValue

NextGaps ==
    \/ CallVerifyData
    \/ CallAnalyzeGaps
    \/ CallGetOhlcvData

SpecGaps == InitGaps /\ [][NextGaps]_vars

-----------------------------------------------------------------------------
(* Properties *)

\* the store at the start of the run with the run's upserts laid over it
Overlay(S0, w) ==
    {r \in S0 : FromIsoFormat(r.timestamp) \notin DOMAIN w}
        \cup {Row(t, w[t]) : t \in DOMAIN w}

\* S holds a candle at every interval step from a to b
Covers(S, a, b, m) ==
    \A k \in 0..((b - a) \div Minutes(m)) :
        \E r \in S : r.timestamp = AdaptDatetime(a + Minutes(k * m))

\* pairs of W with no element of W between them
AdjacentPairs(W) ==
    {p \in W \X W : p[1] < p[2] /\ ~(\E c \in W : p[1] < c /\ c < p[2])}

\* the gap records of the stored timestamps t with s <= t <= e
ClaimedGaps(S, s, e, m) ==
    LET W == {t \in {FromIsoFormat(r.timestamp) : r \in S} :
                 (s # Null => s <= t) /\ (e # Null => t <= e)}
        holes == {p \in AdjacentPairs(W) : p[2] - p[1] > Minutes(m)}
        starts == SortAsc({p[1] : p \in holes})
        NextOf(a) == CHOOSE b \in W : <<a, b>> \in holes
    IN  [i \in 1..Len(starts) |->
            [start |-> starts[i],
             end |-> NextOf(starts[i]),
             duration |-> NextOf(starts[i]) - starts[i],
             missing_candles |->
                 (((NextOf(starts[i]) - starts[i]) \div 60) \div m) - 1]]

\* C1: the store covered [A, B] when collect began, the requested range is
\* [A, C] with C > B
ResumeCase ==
    /\ pc = "loop"
    /\ min_date # NullText
    /\ FromIsoFormat(min_date) = req_start
    /\ end_date > FromIsoFormat(max_date)
    /\ Covers(store0, req_start, FromIsoFormat(max_date), interval)

\* C1: in a resumed run over [A, C] on a store covering [A, B], every candle a
\* fetch returned and every candle upserted has its timestamp in (B, C].
C1_ResumeFetchesOnlyNew ==
    ResumeCase =>
        \A t \in page \cup DOMAIN written :
            FromIsoFormat(max_date) < t /\ t <= end_date

\* C2: every iteration of the pagination loop that does not raise strictly
\* decreases the cursor, so the loop terminates.
C2_CursorStrictlyDecreases ==
    [][(pc = "loop" /\ pc' = "loop" /\ nfetch' = nfetch + 1)
          => current_date' < current_date]_vars

\* C3: the store holds at most one row per timestamp, the row of a timestamp
\* upserted in the run carries the values of its latest upsert, every other row
\* is as it was, and upserting a candle again (with the same or with other
\* values) leaves one row with the latest values.
C3_IdempotentUpsert ==
    /\ \A r1, r2 \in store : r1.timestamp = r2.timestamp => r1 = r2
    /\ \A t \in DOMAIN written : Row(t, written[t]) \in store
    /\ \A r \in store0 : FromIsoFormat(r.timestamp) \notin DOMAIN written => r \in store
    /\ \A t \in UpstreamTimes(interval), v1 \in Vals, v2 \in Vals :
          LET once == ExecuteMany(store, <<Row(t, v1)>>, 1)
              twice == ExecuteMany(store, <<Row(t, v1), Row(t, v2)>>, 2)
          IN  /\ {r \in twice : r.timestamp = AdaptDatetime(t)} = {Row(t, v2)}
              /\ Cardinality(twice) = Cardinality(once)
              /\ (v1 = v2 => twice = once)

\* C3: a stored candle has been upserted again with other values
C3_Witness ==
    \E t \in DOMAIN written :
        /\ Row(t, 1) \in store0
        /\ written[t] = 2
        /\ Row(t, 2) \in store

\* C4: when a fetch raises, collect raises to its caller without a report, the
\* store holds what it held at the start with the pages upserted before laid
\* over it, the failing request changes no row, and no request and no write
\* follows in that run.
C4_FetchErrorKeepsCommittedPages ==
    /\ [](raised = "fetch" =>
            /\ pc = "failed"
            /\ result = NoValue
            /\ store = Overlay(store0, written))
    /\ [][(raised = "none" /\ raised' = "fetch") =>
            (store' = store /\ nfetch' = nfetch + 1)]_vars
    /\ [][raised = "fetch" =>
            (raised' = "fetch" /\ nfetch' = nfetch /\ store' = store)]_vars

\* C4: a fetch failed after a page had been upserted
C4_Witness ==
    /\ raised = "fetch"
    /\ nfetch >= 2
    /\ DOMAIN written # {}
    /\ store # store0

\* C5: a page whose write fails leaves the store as it was before the call,
\* the error ends the run with no further request; a page whose write succeeds
\* has every candle stored and the returned count is the page length.
C5_UpsertBatchAtomic ==
    /\ [][(raised = "none" /\ raised' = "save") =>
            (store' = store /\ pc' = "failed" /\ result' = NoValue)]_vars
    /\ [][raised = "save" =>
            (raised' = "save" /\ nfetch' = nfetch /\ store' = store)]_vars
    /\ [][(pc = "loop" /\ pc' = "loop" /\ nfetch' = nfetch + 1 /\ page' # {}) =>
            /\ saved_count' = Cardinality(page')
            /\ \A t \in page' : Row(t, written'[t]) \in store']_vars

\* C5: a write failed after at least one row of the page had been inserted
C5_Witness ==
    /\ raised = "save"
    /\ executed >= 1

\* C6: the run began on an empty store, the requested range is aligned and
\* spans E intervals, one page returned K < E candles leaving one interior hole
\* of E - K candles
EndToEndCase ==
    /\ pc = "done"
    /\ store0 = {}
    /\ nfetch = 1
    /\ start_date = req_start
    /\ adjusted_start = req_start
    /\ adjusted_end = end_date
    /\ end_date > req_start
    /\ (end_date - req_start) % Minutes(interval) = 0
    /\ LET E == (end_date - req_start) \div Minutes(interval)
           W == DOMAIN written
           K == Cardinality(W)
           holes == {p \in AdjacentPairs(W) : p[2] - p[1] > Minutes(interval)}
       IN  /\ 0 < K /\ K < E
           /\ \A t \in W : req_start <= t /\ t <= end_date
           /\ Cardinality(holes) = 1
           /\ \A p \in holes : p[2] - p[1] = Minutes(interval * (E - K + 1))

\* C6: in that case collect returns totalCount = K, expectedCandles = E and
\* exactly one gap with missingCandles = E - K.
C6_EndToEndReport ==
    EndToEndCase =>
        LET E == (end_date - req_start) \div Minutes(interval)
            K == Cardinality(DOMAIN written)
        IN  /\ result.total_count = K
            /\ result.expected_candles = E
            /\ Len(result.gaps) = 1
            /\ result.gaps[1].missing_candles = E - K

\* C7: analyze_gaps returns, in ascending order, exactly one record per
\* adjacent pair of stored timestamps in [start, end] further apart than the
\* interval, with start, end and missingCandles = floor(minutes/interval) - 1.
C7_GapCorrectness ==
    out.op = "analyze_gaps" =>
        out.value = ClaimedGaps(store, out.start, out.end, interval)

\* C8: the expected candle count is never negative, and is 0 when the end is
\* not after the start after alignment; so is the expectedCandles of the report.
C8_ExpectedCountNonNegative ==
    /\ pc # "idle" => total_candles >= 0
    /\ pc = "done" =>
          /\ result.expected_candles >= 0
          /\ (adjusted_end <= adjusted_start => result.expected_candles = 0)

\* C9: alignEnd(t, m) <= t, its minutes since midnight are a multiple of m, and
\* aligning it again changes nothing (both copies of the alignment code).
C9_AlignEndInvariant ==
    clk_out.op \in {"collect", "calculate"} =>
        /\ clk_out.first <= clk_t
        /\ (Hour(clk_out.first) * 60 + Minute(clk_out.first)) % interval = 0
        /\ (clk_out.again # Null => clk_out.again = clk_out.first)

\* C9: an end that the alignment moved has been aligned twice
C9_Witness ==
    /\ clk_out # NoValue
    /\ clk_out.op = "collect"
    /\ clk_out.again # Null
    /\ clk_out.first < clk_t
    /\ interval = 240

\* C10: over any range the ordering check counts no violation, in every state
\* reached by initialize and the upserts of collect.
C10_NoOrderingViolations ==
    /\ \A q \in QueryArgs(interval) : VerifyData(store, q[1], q[2]).mismatches = 0
    /\ out.op = "verify_data" => out.value.mismatches = 0
    /\ pc = "done" => result.timestamp_order_mismatches = 0

\* C10: verify_data has read two or more rows, some of them upserted in the run
C10_Witness ==
    /\ out.op = "verify_data"
    /\ out.value.total_count >= 2
    /\ DOMAIN written # {}
    /\ out.value.mismatches = 0

\* the stored rows whose timestamp t satisfies s <= t <= e
RowsInRange(S, s, e) ==
    {r \in S : /\ (s # Null => s <= FromIsoFormat(r.timestamp))
               /\ (e # Null => FromIsoFormat(r.timestamp) <= e)}

\* C11: the read queries consider exactly the stored candles with
\* start <= t <= end (a null bound is unbounded), so verify_data counts them and
\* the totalCount of collect is the number stored in [adjustedStart, adjustedEnd].
C11_RangeSemantics ==
    /\ out.op = "verify_data" =>
          out.value.total_count = Cardinality(RowsInRange(store, out.start, out.end))
    /\ pc = "done" =>
          result.total_count =
              Cardinality(RowsInRange(store, adjusted_start, adjusted_end))

\* the primary keys of a table
Timestamps(S) == {r.timestamp : r \in S}

\* C12: no operation deletes a candle: across every step (initialize_db,
\* collect and its page upserts, failures and rollbacks, verify_data,
\* analyze_gaps, get_ohlcv_data) the set of stored timestamps only grows.
C12_NeverDeleted == [][Timestamps(store) \subseteq Timestamps(store')]_vars

\* a run on a non-empty database file has written a page that replaced a stored
\* candle and added a new one
C12_Witness ==
    /\ pc = "done"
    /\ store0 # {}
    /\ Timestamps(store0) # Timestamps(store)
    /\ \E t \in DOMAIN written : AdaptDatetime(t) \in Timestamps(store0)

\* C13 as claimed: every upstream request of a run, whether it returned a
\* page, returned nothing or failed, has been followed by the pacing delay once
\* the next request is due or the run has ended.
C13_PacingAfterEveryRequest == pc # "idle" => sleeps = nfetch

\* C13: every request whose page was saved, and every request that returned
\* nothing, is followed by one pacing delay before the next request or the end
\* of the run; a request that raised, or whose page failed to save, is followed
\* by no delay: collect raises at once.
C13_PacingAfterReturnedRequests ==
    /\ [](pc \in {"loop", "done"} => sleeps = nfetch)
    /\ [](pc = "failed" => sleeps = nfetch - 1)
    /\ [][(pc = "loop" /\ pc' = "loop" /\ nfetch' = nfetch + 1) =>
              sleeps' = sleeps + 1]_vars
    /\ [][pc' = "failed" => sleeps' = sleeps]_vars

\* a run that saved a page, made a second request and failed on it
C13_Witness ==
    /\ pc = "failed"
    /\ nfetch = 2
    /\ sleeps = 1
    /\ written # <<>>

\* C14: whenever adjustedEnd <= adjustedStart after alignment, collect issues
\* no upstream fetch and no upsert, does not raise, and returns a report whose
\* expectedCandles is 0.
C14_MalformedRange ==
    (pc # "idle" /\ adjusted_end <= adjusted_start) =>
        /\ nfetch = 0
        /\ written = <<>>
        /\ store = store0
        /\ pc # "failed"
        /\ (pc = "done" => result.expected_candles = 0)

ReadOps == {"verify_data", "analyze_gaps"}

\* C15: analyze_gaps and verify_data leave the store unchanged, analyze_gaps
\* returns the empty sequence when fewer than two stored rows lie in
\* [start, end], and a repeated call on the same store returns the same result.
C15_ReadOnlyQueries ==
    /\ [][(out' # out /\ out'.op \in ReadOps) => store' = store]_vars
    /\ []((out.op = "analyze_gaps"
             /\ Cardinality(RowsInRange(store, out.start, out.end)) < 2)
          => out.value = <<>>)
    /\ [][(/\ out.op \in ReadOps
           /\ out'.op = out.op
           /\ out'.start = out.start
           /\ out'.end = out.end
           /\ store' = store) => out'.value = out.value]_vars

\* minutes since 09:00 of the day of t
MinutesFromNine(t) == (Hour(t) - SessionOpenHour) * 60 + Minute(t)

\* C16 as claimed: adjustedStart is the effective start snapped to 09:00 when
\* earlier, otherwise rounded up to the next multiple of the interval from 09:00
\* with the seconds zeroed; it is never earlier than the effective start
\* truncated to the minute and is the start _calculate_total_candles uses.
C16_StartRoundsUp ==
    clk_out.op = "start" =>
        /\ clk_out.first >= ReplaceSecond(clk_t)
        /\ clk_out.first = ReplaceSecond(CalcStart(clk_t, interval))

\* C16: adjustedStart is the effective start snapped to 09:00 when earlier,
\* otherwise rounded down to the previous multiple of the interval from 09:00
\* with the seconds zeroed: it lies on the 09:00 grid of the same day, is at or
\* before a start of 09:00 or later and less than one interval before it, and is
\* one interval before the rounded-up start of _calculate_total_candles whenever
\* the start is off the grid; aligning it again, by either copy of the code,
\* changes nothing.
C16_StartRoundsDown ==
    clk_out.op = "start" =>
        LET a == clk_out.first
            snapped == IF Hour(clk_t) < SessionOpenHour
                       THEN ReplaceHour(clk_t, SessionOpenHour)
                       ELSE ReplaceSecond(clk_t)
        IN  /\ Second(a) = 0
            /\ Day(a) = Day(clk_t)
            /\ Hour(a) >= SessionOpenHour
            /\ MinutesFromNine(a) % interval = 0
            /\ a <= snapped
            /\ snapped - a < Minutes(interval)
            /\ (Hour(clk_t) < SessionOpenHour => a = snapped)
            /\ ReplaceSecond(CalcStart(clk_t, interval)) =
                  IF MinutesFromNine(snapped) % interval # 0
                  THEN a + Minutes(interval)
                  ELSE a
            /\ CalcStart(a, interval) = a
            /\ (clk_out.again # Null => clk_out.again = a)

\* a start after 09:00 and off the 240-minute grid was moved back, then aligned
\* a second time
C16_Witness ==
    /\ clk_out.op = "start"
    /\ interval = 240
    /\ Hour(clk_t) >= SessionOpenHour
    /\ clk_out.first < ReplaceSecond(clk_t)
    /\ clk_out.again # Null

\* the times of the candles of a table
Times(S) == {FromIsoFormat(r.timestamp) : r \in S}

MinTime(S) == CHOOSE t \in Times(S) : \A u \in Times(S) : t <= u
MaxTime(S) == CHOOSE t \in Times(S) : \A u \in Times(S) : u <= t

\* C17: the effective start of a run is the requested start when the store is
\* empty or its minimum is strictly later than the requested start, otherwise
\* the stored maximum; the decision reads the two extremes and writes nothing.
C17_ResumeDecision ==
    /\ [](pc # "idle" =>
            /\ start_date = IF store0 = {} \/ MinTime(store0) > req_start
                            THEN req_start
                            ELSE MaxTime(store0)
            /\ (store0 = {} => min_date = NullText /\ max_date = NullText)
            /\ (store0 # {} => /\ FromIsoFormat(min_date) = MinTime(store0)
                               /\ FromIsoFormat(max_date) = MaxTime(store0)))
    /\ [][(pc = "idle" /\ pc' = "loop") => store' = store]_vars

\* a run resumed from the stored maximum, and stored data whose minimum equals
\* the requested start
C17_Witness ==
    /\ pc = "loop"
    /\ store0 # {}
    /\ MinTime(store0) = req_start
    /\ start_date = MaxTime(store0)
    /\ start_date # req_start

\* C18 as claimed: the resume decision only advances the start: the effective
\* start is at or after the requested start for every store content and range,
\* so no candle before the requested start is written by the run.
C18_ResumeOnlyAdvances ==
    pc # "idle" =>
        /\ start_date >= req_start
        /\ \A t \in DOMAIN written : t >= req_start

\* C18: the effective start is the requested start or the stored maximum; it is
\* at or after the requested start whenever the stored maximum is, and it is the
\* stored maximum, earlier than the requested start, when the whole store lies
\* before the requested start; a request is issued only while the cursor is
\* strictly after the effective start.
C18_ResumeFromStoredMaximum ==
    /\ [](pc # "idle" =>
            /\ (store0 = {} => start_date = req_start)
            /\ (store0 # {} =>
                  /\ start_date \in {req_start, MaxTime(store0)}
                  /\ (MaxTime(store0) >= req_start => start_date >= req_start)
                  /\ (MaxTime(store0) < req_start => start_date = MaxTime(store0))))
    /\ [][nfetch' = nfetch + 1 => current_date > start_date]_vars

\* the whole store lay before the requested start: the run resumed from the
\* stored maximum and issued a request
C18_Witness ==
    /\ pc = "loop"
    /\ store0 # {}
    /\ start_date < req_start
    /\ start_date = MaxTime(store0)
    /\ nfetch >= 1

\* C19: when the upstream holds a candle at every interval-aligned timestamp
\* and never fails, then once collect has returned, whatever the store held
\* before, the store holds a candle at every aligned timestamp of
\* [adjustedStart, adjustedEnd] and the returned gap sequence is empty.
C19_BackfillComplete ==
    (/\ pc = "done"
     /\ upstream # {}
     /\ start_date >= Slot(0, interval)
     /\ end_date <= Slot(MaxSlot, interval)) =>
        /\ \A t \in UpstreamTimes(interval) :
              (adjusted_start <= t /\ t <= adjusted_end) => t \in Times(store)
        /\ result.gaps = <<>>

\* C20: every gap record analyze_gaps returns has missingCandles >= 1, for
\* every interval of the enumeration and every stored sequence, sequences whose
\* spacing exceeds the interval by less than one interval included.
C20_GapRecordsMissAtLeastOne ==
    out.op = "analyze_gaps" =>
        \A i \in 1..Len(out.value) : out.value[i].missing_candles >= 1

\* C21: in every loop iteration the requested count is
\* max(1, min(200, floor(timeDiffMinutes / interval))), timeDiffMinutes being
\* the whole minutes between the cursor and the effective start; so
\* 1 <= count <= 200 and count = 1 whenever less than two intervals remain.
C21_PageSize ==
    [][(pc = "loop" /\ pc' = "loop" /\ nfetch' = nfetch + 1) =>
          LET timeDiffMinutes == (current_date - start_date) \div 60
              quotient == timeDiffMinutes \div interval
              count == request'.count
          IN  /\ count = IF quotient < 1 THEN 1
                         ELSE IF quotient > 200 THEN 200 ELSE quotient
              /\ 1 <= count
              /\ count <= 200
              /\ (current_date - start_date < Minutes(2 * interval) => count = 1)
              /\ request'.to = current_date - 9 * 3600]_vars

\* a request of a full page of 200 was made with more than 200 intervals left
C21_Witness ==
    /\ pc = "loop"
    /\ nfetch = 1
    /\ request.count = 200
    /\ end_date - start_date > Minutes(200 * interval)

\* a step of the loop that made a request and went on
LoopStep == pc = "loop" /\ pc' = "loop" /\ nfetch' = nfetch + 1

\* C22: the cursor starts at the unaligned requested end; after a non-empty
\* page the whole page has been upserted and the cursor is the earliest
\* timestamp of that page; after an empty page the store is unchanged and the
\* cursor is exactly 200 * interval minutes earlier; the cursor never increases
\* during a run.
C22_CursorSteps ==
    /\ [][(pc = "idle" /\ pc' = "loop") =>
             /\ current_date' = end_date'
             /\ store' = store]_vars
    /\ [][(LoopStep /\ page' # {}) =>
             /\ \A t \in page' : Row(t, written'[t]) \in store'
             /\ saved_count' = Cardinality(page')
             /\ current_date' \in page'
             /\ \A t \in page' : current_date' <= t]_vars
    /\ [][(LoopStep /\ page' = {}) =>
             /\ store' = store
             /\ current_date' = current_date - 200 * interval * 60]_vars
    /\ [][(pc = "loop" /\ pc' = "loop") => current_date' <= current_date]_vars

\* a run whose requested end is off the grid got a page of two or more candles
\* and then an empty page
C22_Witness ==
    /\ pc = "loop"
    /\ nfetch = 2
    /\ page = {}
    /\ Cardinality(DOMAIN written) >= 2
    /\ adjusted_end # end_date
    /\ current_date < end_date - 200 * interval * 60

\* the candles of [s, e] that readRange is claimed to return: all of them, or
\* with the filter the first one and those whose predecessor in range is exactly
\* one interval earlier
ClaimedRead(S, s, e, filter_gaps, m) ==
    LET R == RowsInRange(S, s, e)
        T == Times(R)
        Kept(t) == \/ ~filter_gaps
                   \/ \A u \in T : t <= u
                   \/ /\ t - Minutes(m) \in T
                      /\ \A u \in T : ~(t - Minutes(m) < u /\ u < t)
    IN  {[index |-> FromIsoFormat(r.timestamp), val |-> r.val] :
            r \in {x \in R : Kept(FromIsoFormat(x.timestamp))}}

\* C23: get_ohlcv_data returns candles in strictly ascending timestamp order;
\* without the filter every stored candle of [start, end], with the filter the
\* first candle in range and exactly those whose immediately preceding stored
\* candle in range is one interval earlier.
C23_ReadRange ==
    out.op = "get_ohlcv_data" =>
        /\ \A i \in 1..(Len(out.value) - 1) :
              out.value[i].index < out.value[i + 1].index
        /\ {out.value[i] : i \in 1..Len(out.value)} =
              ClaimedRead(store, out.start, out.end, out.filter_gaps, interval)

====
